---- MODULE Spec2Model ----
(***************************************************************************)
(* Model of the Socket.IO session hub of server.js: the connection         *)
(* handlers (join, sendMessage, disconnect), the in-memory connectedUsers  *)
(* map, the online_users and messages tables of chat.db, and the events    *)
(* every connection receives.                                              *)
(*                                                                         *)
(* Handlers run to completion on the event loop.  A handler only ISSUES    *)
(* its database statements (db.run / db.all); each statement completes     *)
(* later and only then runs its callback.  The database is opened at       *)
(* server.js:30 and no statement is wrapped in db.serialize(), so sqlite3  *)
(* runs the statements in its default parallel mode: the statements that   *)
(* are pending complete in any order; pending is the bag of them.          *)
(*                                                                         *)
(* What a client sees is kept as emitted (the events of the last step, per *)
(* recipient) and received (the newMessage events a socket has been sent,  *)
(* in order).  Spec is the whole server; SpecPresence runs join/disconnect *)
(* alone and SpecChat sendMessage alone, the two halves sharing no state   *)
(* but the set of connected sockets, and SpecHub runs them together.       *)
(* SpecHistory adds getMessages to SpecChat, SpecReaders runs getMessages   *)
(* over a store that is already filled, SpecQuery follows single history    *)
(* queries (socket and HTTP) over every small store and stores around the   *)
(* LIMIT, and SpecRestart stops and starts the server.                      *)
(***************************************************************************)
EXTENDS Integers, Sequences, FiniteSets, Bags

VARIABLES
    running,         \* the node process is alive
    now,             \* the wall clock, as last read by new Date()
    sockets,         \* ids of the sockets that are connected to io
    closed,          \* ids of the sockets that are gone: their 'disconnect'
                     \* has been handled or the process has exited under them
    connectedUsers,  \* the Map socket.id -> {studentId, name, socketId}
    online_users,    \* rows of table online_users, in rowid order
                     \* (joined_at = CURRENT_TIMESTAMP never decreases
                     \* along it)
    messages,        \* rows of table messages, in rowid (= id) order
    pending,         \* statements issued to sqlite3, not yet completed
    emitted,         \* per socket id, the events the last step sent to it
    received,        \* per socket id, the newMessage events it has been sent
    lastJoin,        \* per student id, the socket of the latest 'join' handled
                     \* for it (0: none yet)
    nJoins,          \* number of 'join' events handled
    nLeaves,         \* number of disconnects of joined connections handled
    nSends,          \* number of 'sendMessage' events handled
    nGets,           \* number of history requests handled (socket and HTTP)
    response         \* the last response to GET /api/messages

vars == <<running, now, sockets, closed, connectedUsers, online_users,
          messages, pending, emitted, received, lastJoin, nJoins, nLeaves, nSends,
          nGets, response>>

----------------------------------------------------------------------------
(* Bounds of the model *)

NumConns == 2
MaxJoins == 2
MaxSends == 2
MaxTime == 1
MaxGets == 1
(* clock readings per calendar day, calendar days the stored messages span, *)
(* the largest `days` a history request asks for, and the rows of a small   *)
(* message store                                                            *)
TicksPerDay == 2
HistoryDays == 2
MaxDays == 1
MaxRows == 2

(* ORDER BY timestamp ASC LIMIT 1000 *)
Limit == 1000

Conns == 1..NumConns

(* a field the client payload did not carry (JavaScript undefined, bound    *)
(* to SQL NULL)                                                             *)
Undefined == "undefined"

StudentIds == {"2021001", "2021002"}

(* payloads of 'join': {studentId, name} *)
UserInfos ==
    {[studentId |-> "2021001", name |-> "n1"],
     [studentId |-> "2021002", name |-> "n2"]}

(* payloads of 'sendMessage': {content, user: {studentId, name}}; hasUser   *)
(* is FALSE when the payload has no user object at all                      *)
MessageDatas ==
    {[hasUser |-> TRUE, studentId |-> "2021001", name |-> "n1", content |-> "hi"],
     [hasUser |-> TRUE, studentId |-> "2021001", name |-> "n1", content |-> Undefined],
     [hasUser |-> FALSE, studentId |-> Undefined, name |-> Undefined, content |-> "hi"]}

(* a calendar date as text, 'YYYY-MM-DD'; <<>> is a parameter that is      *)
(* absent or the empty string                                               *)
DateText(d) == <<d>>

Dates == {DateText(d) : d \in 0..(HistoryDays - 1)}

(* payloads of 'getMessages': {days, startDate, endDate}; hasRange is FALSE *)
(* when the event carries no payload at all                                 *)
DateRanges ==
    {[hasRange |-> FALSE, days |-> 0, startDate |-> <<>>, endDate |-> <<>>]}
    \cup {[hasRange |-> TRUE, days |-> n, startDate |-> <<>>, endDate |-> <<>>] :
              n \in 0..MaxDays}
    \cup {[hasRange |-> TRUE, days |-> 0, startDate |-> a, endDate |-> b] :
              a \in Dates, b \in Dates \cup {<<>>}}

(* the characters of a `days` query parameter *)
DaysChars == {"0", "1", "x"}

(* query strings of GET /api/messages: days is a string of at most two     *)
(* characters, <<>> when it is absent                                       *)
HttpQueries ==
    {[days |-> n, startDate |-> <<>>, endDate |-> <<>>] :
        n \in {<<>>} \cup {<<c>> : c \in DaysChars}
                    \cup {<<c, d>> : c \in {"0", "1"}, d \in DaysChars}}
    \cup {[days |-> <<>>, startDate |-> a, endDate |-> b] :
              a \in Dates, b \in Dates \cup {<<>>}}

----------------------------------------------------------------------------
(* Events sent to clients.  All events share one record shape; the fields  *)
(* an event type does not carry hold the defaults of NoEvent.              *)

NoEvent ==
    [type |-> "none", studentId |-> "", name |-> "", list |-> <<>>,
     id |-> 0, content |-> "", timestamp |-> 0, message |-> ""]

UserJoinedEvent(studentId, name) ==
    [NoEvent EXCEPT !.type = "userJoined", !.studentId = studentId, !.name = name]

UserLeftEvent(user) ==
    [NoEvent EXCEPT !.type = "userLeft", !.studentId = user.studentId,
                    !.name = user.name]

WelcomeEvent ==
    [NoEvent EXCEPT !.type = "systemMessage", !.message = "welcome"]

ErrorEvent(text) ==
    [NoEvent EXCEPT !.type = "error", !.message = text]

(* mutant: the callback is an arrow function, this.lastID is not the row id *)
NewMessageEventNoLastID(id, op) ==
    [NoEvent EXCEPT !.type = "newMessage", !.id = 0, !.content = op.content,
                    !.timestamp = op.timestamp, !.studentId = op.student_id,
                    !.name = op.user_name]

NewMessageEvent(id, op) ==
    [NoEvent EXCEPT !.type = "newMessage", !.id = id, !.content = op.content,
                    !.timestamp = op.timestamp, !.studentId = op.student_id,
                    !.name = op.user_name]

UserListEntry(row) ==
    [studentId |-> row.student_id, name |-> row.user_name, online |-> TRUE]

UserListUpdateEvent(users) ==
    [NoEvent EXCEPT !.type = "userListUpdate",
                    !.list = [i \in 1..Len(users) |-> UserListEntry(users[i])]]

(* an element of formattedMessages *)
FormattedMessage(msg) ==
    [id |-> msg.id, content |-> msg.content, timestamp |-> msg.timestamp,
     studentId |-> msg.student_id, name |-> msg.user_name]

FormattedMessages(rows) == [i \in 1..Len(rows) |-> FormattedMessage(rows[i])]

MessageHistoryEvent(rows) ==
    [NoEvent EXCEPT !.type = "messageHistory", !.list = FormattedMessages(rows)]

(* responses of GET /api/messages; NoResponse: none was sent yet *)
NoResponse == [status |-> 0, success |-> FALSE, messages |-> <<>>]

MessagesResponse(rows) ==
    [status |-> 200, success |-> TRUE, messages |-> FormattedMessages(rows)]

MessagesFailedResponse == [status |-> 500, success |-> FALSE, messages |-> <<>>]

(* a step that sends nothing *)
Nothing == [t \in Conns |-> <<>>]

(* io.emit: to every connected socket *)
IoEmit(out, ev) ==
    [t \in Conns |-> IF t \in sockets THEN Append(out[t], ev) ELSE out[t]]

(* socket.broadcast.emit: to every connected socket but s *)
SocketBroadcastEmit(out, s, ev) ==
    [t \in Conns |-> IF t \in sockets /\ t # s THEN Append(out[t], ev) ELSE out[t]]

(* socket.emit: to s alone; a socket that has disconnected gets nothing *)
SocketEmit(out, s, ev) ==
    [t \in Conns |-> IF t \in sockets /\ t = s THEN Append(out[t], ev) ELSE out[t]]

(* the client of a socket keeps the newMessage events it is sent *)
Deliver(rcv, out) ==
    [t \in Conns |->
        rcv[t] \o SelectSeq(out[t], LAMBDA ev : ev.type = "newMessage")]

----------------------------------------------------------------------------
(* Statements issued to sqlite3 *)

NoOp ==
    [kind |-> "none", sock |-> 0, from |-> "", student_id |-> "",
     user_name |-> "", content |-> "", timestamp |-> 0,
     where |-> "", days |-> <<>>, startDate |-> <<>>, endDate |-> <<>>]

InsertOnlineUser(s, studentId, name) ==
    [NoOp EXCEPT !.kind = "insertOnline", !.sock = s, !.student_id = studentId,
                 !.user_name = name]

DeleteOnlineUser(s) ==
    [NoOp EXCEPT !.kind = "deleteOnline", !.sock = s]

(* from: the handler that called updateUserList() *)
SelectOnlineUsers(s, from) ==
    [NoOp EXCEPT !.kind = "selectOnline", !.sock = s, !.from = from]

InsertMessage(s, md, timestamp) ==
    [NoOp EXCEPT !.kind = "insertMessage", !.sock = s,
                 !.student_id = md.studentId, !.user_name = md.name,
                 !.content = md.content, !.timestamp = timestamp]

(* parseInt(str): the value of the leading decimal digits, <<n>>; NaN,    *)
(* written <<>>, when str does not start with a digit                       *)
Digits == <<"0", "1", "2", "3", "4", "5", "6", "7", "8", "9">>

IsDigit(c) == \E i \in 1..Len(Digits) : Digits[i] = c

DigitValue(c) == (CHOOSE i \in 1..Len(Digits) : Digits[i] = c) - 1

RECURSIVE LeadingDigits(_, _)
LeadingDigits(str, value) ==
    IF str = <<>> \/ ~IsDigit(str[1])
    THEN value
    ELSE LeadingDigits(Tail(str), 10 * value + DigitValue(str[1]))

ParseInt(str) ==
    IF str = <<>> \/ ~IsDigit(str[1]) THEN <<>> ELSE <<LeadingDigits(str, 0)>>

(* SELECT * FROM messages [WHERE ...] ORDER BY timestamp ASC LIMIT 1000:    *)
(* the handler builds the text of the query; where names the WHERE clause   *)
(* it appended, days is the number spliced into the text, the dates are     *)
(* the bound parameters                                                     *)
SelectMessagesAll(s, from) ==
    [NoOp EXCEPT !.kind = "selectMessages", !.sock = s, !.from = from]

SelectMessagesDays(s, from, days) ==
    [SelectMessagesAll(s, from) EXCEPT !.where = "days", !.days = days]

SelectMessagesBetween(s, from, startDate, endDate) ==
    [SelectMessagesAll(s, from) EXCEPT !.where = "between",
                                       !.startDate = startDate, !.endDate = endDate]

SelectMessagesFrom(s, from, startDate) ==
    [SelectMessagesAll(s, from) EXCEPT !.where = "from", !.startDate = startDate]

(* the query of socket.on('getMessages') *)
GetMessagesQuery(s, dateRange) ==
    IF dateRange.days # 0
    THEN SelectMessagesDays(s, "getMessages", <<dateRange.days>>)
    ELSE IF dateRange.startDate # <<>> /\ dateRange.endDate # <<>>
    THEN SelectMessagesBetween(s, "getMessages", dateRange.startDate,
                               dateRange.endDate)
    ELSE IF dateRange.startDate # <<>>
    THEN SelectMessagesFrom(s, "getMessages", dateRange.startDate)
    ELSE SelectMessagesAll(s, "getMessages")

(* the query of GET /api/messages *)
HttpMessagesQuery(query) ==
    IF query.days # <<>> /\ query.days # <<"0">>
    THEN SelectMessagesDays(0, "http", ParseInt(query.days))
    ELSE IF query.startDate # <<>> /\ query.endDate # <<>>
    THEN SelectMessagesBetween(0, "http", query.startDate, query.endDate)
    ELSE IF query.startDate # <<>>
    THEN SelectMessagesFrom(0, "http", query.startDate)
    ELSE SelectMessagesAll(0, "http")

(* db.run / db.all: hands a statement to sqlite3 *)
Issue(queue, op) == queue (+) SetToBag({op})

(* the statement has completed *)
Completed(queue, op) == queue (-) SetToBag({op})

(* which pending statement sqlite3 may complete next: any of them *)
Runnable(op) == BagIn(op, pending)

----------------------------------------------------------------------------
(* Tables *)

(* INSERT OR REPLACE INTO online_users: student_id is the PRIMARY KEY, the  *)
(* row of the same student_id is deleted and the new row gets a new rowid   *)
ReplaceOnlineUser(rows, op) ==
    Append(SelectSeq(rows, LAMBDA r : r.student_id # op.student_id),
           [student_id |-> op.student_id, user_name |-> op.user_name,
            socket_id |-> op.sock])

(* DELETE FROM online_users WHERE socket_id = ? *)
DeleteBySocket(rows, s) ==
    SelectSeq(rows, LAMBDA r : r.socket_id # s)

(* SELECT * FROM online_users ORDER BY joined_at ASC: every row gets the   *)
(* CURRENT_TIMESTAMP of its insertion as joined_at, so the rows come in     *)
(* the order of their insertion                                             *)
OrderByJoinedAt(rows) == rows

(* messages.student_id and messages.content are NOT NULL *)
MessageConstraintsHold(op) ==
    op.student_id # Undefined /\ op.content # Undefined

(* the row an INSERT INTO messages creates; id is the AUTOINCREMENT key *)
MessageRow(id, op) ==
    [id |-> id, student_id |-> op.student_id, user_name |-> op.user_name,
     content |-> op.content, timestamp |-> op.timestamp]

(* Timestamps.  An instant is a number of clock ticks; a text is the      *)
(* sequence of its parts, compared part by part as SQLite compares TEXT.    *)
Day(t) == t \div TicksPerDay

TimeOfDay(t) == t % TicksPerDay

(* new Date().toISOString(): 'YYYY-MM-DDTHH:MM:SS.sssZ', the text that a    *)
(* row of messages holds for the instant t                                  *)
ToISOString(t) == <<Day(t), "T", TimeOfDay(t)>>

(* SQLite datetime('now', '-N days') at instant t: 'YYYY-MM-DD HH:MM:SS'    *)
SqlDatetime(t, days) == <<Day(t) - days, " ", TimeOfDay(t)>>

(* SQLite date(text): 'YYYY-MM-DD' *)
SqlDate(text) == DateText(text[1])

(* ' ' (0x20) sorts before 'T' (0x54) *)
CharLess(a, b) == a = " " /\ b = "T"

(* text1 <= text2 for two timestamp texts *)
TimestampLeq(text1, text2) ==
    \/ text1[1] < text2[1]
    \/ /\ text1[1] = text2[1]
       /\ \/ CharLess(text1[2], text2[2])
          \/ text1[2] = text2[2] /\ text1[3] <= text2[3]

(* text1 <= text2 for two date texts *)
DateLeq(text1, text2) == text1[1] <= text2[1]

(* the WHERE clause of a history query, on one row, evaluated at instant    *)
(* clock; with days = NaN datetime() yields NULL and no row passes          *)
Where(op, row, clock) ==
    CASE op.where = "days" ->
             /\ op.days # <<>>
             /\ TimestampLeq(SqlDatetime(clock, op.days[1]),
                             ToISOString(row.timestamp))
      [] op.where = "between" ->
             /\ DateLeq(op.startDate, SqlDate(ToISOString(row.timestamp)))
             /\ DateLeq(SqlDate(ToISOString(row.timestamp)), op.endDate)
      [] op.where = "from" ->
             DateLeq(op.startDate, SqlDate(ToISOString(row.timestamp)))
      [] OTHER -> TRUE

(* mutant: the query has no ORDER BY *)
Unordered(rows) == rows

(* ORDER BY timestamp ASC: by the text of the timestamp.  messages has no   *)
(* index on timestamp: SQLite reads the table in rowid order and sorts what *)
(* it read, and its sorter leaves rows of equal key in the order read       *)
RECURSIVE OrderByTimestamp(_)
OrderByTimestamp(rows) ==
    IF rows = <<>> THEN <<>>
    ELSE LET stamps == {rows[i].timestamp : i \in 1..Len(rows)}
             least == CHOOSE t \in stamps : \A u \in stamps :
                          TimestampLeq(ToISOString(t), ToISOString(u))
         IN  SelectSeq(rows, LAMBDA r : r.timestamp = least)
             \o OrderByTimestamp(SelectSeq(rows, LAMBDA r : r.timestamp # least))

(* mutant: the query has no LIMIT *)
NoLimitRows(rows) == rows

(* LIMIT 1000 *)
LimitRows(rows) ==
    IF Len(rows) <= Limit THEN rows ELSE SubSeq(rows, 1, Limit)

(* the rows a history query returns at instant clock *)
SelectMessages(op, clock) ==
    LimitRows(OrderByTimestamp(
        SelectSeq(messages, LAMBDA row : Where(op, row, clock))))

----------------------------------------------------------------------------
Init ==
    /\ running = TRUE
    /\ now = 0
    /\ sockets = {}
    /\ closed = {}
    /\ connectedUsers = [s \in {} |-> [studentId |-> "", name |-> "", socketId |-> 0]]
    /\ online_users = <<>>
    /\ messages = <<>>
    /\ pending = EmptyBag
    /\ emitted = Nothing
    /\ received = [s \in Conns |-> <<>>]
    /\ lastJoin = [u \in StudentIds |-> 0]
    /\ nJoins = 0
    /\ nLeaves = 0
    /\ nSends = 0
    /\ nGets = 0
    /\ response = NoResponse

(* io.on('connection'): a client connects and gets a fresh socket id *)
Connect(s) ==
    /\ running
    /\ s = Cardinality(sockets \cup closed) + 1
    /\ s \in Conns
    /\ sockets' = sockets \cup {s}
    /\ emitted' = Nothing
    /\ UNCHANGED <<nGets, response, running, now, closed, connectedUsers, online_users,
                   messages, pending, received, lastJoin, nJoins, nLeaves, nSends>>

(* updateUserList(): issues the SELECT *)
updateUserList(queue, s, from) == Issue(queue, SelectOnlineUsers(s, from))

(* mutant: io.emit in place of socket.broadcast.emit, the joiner is sent   *)
(* its own userJoined                                                      *)
JoinEmitsToAll(s, userInfo) ==
    SocketEmit(IoEmit(Nothing, UserJoinedEvent(userInfo.studentId, userInfo.name)),
               s, WelcomeEvent)

(* what the join handler sends: userJoined to the others, then the welcome *)
(* systemMessage to the joiner                                              *)
JoinEmits(s, userInfo) ==
    SocketEmit(
        SocketBroadcastEmit(Nothing, s,
                            UserJoinedEvent(userInfo.studentId, userInfo.name)),
        s, WelcomeEvent)

(* socket.on('join') *)
Join(s, userInfo) ==
    /\ running
    /\ s \in sockets
    /\ nJoins < MaxJoins
    /\ connectedUsers' =
           [t \in DOMAIN connectedUsers \cup {s} |->
               IF t = s
               THEN [studentId |-> userInfo.studentId, name |-> userInfo.name,
                     socketId |-> s]
               ELSE connectedUsers[t]]
    /\ pending' = updateUserList(
           Issue(pending, InsertOnlineUser(s, userInfo.studentId, userInfo.name)),
           s, "join")
    /\ emitted' = JoinEmits(s, userInfo)
    /\ lastJoin' = [lastJoin EXCEPT ![userInfo.studentId] = s]
    /\ nJoins' = nJoins + 1
    /\ UNCHANGED <<nGets, response, running, now, sockets, closed, online_users, messages,
                   received, nLeaves, nSends>>


(* an exception nobody catches (there is no 'uncaughtException' handler):   *)
(* node exits; sockets, the map and the statements in flight are lost, the  *)
(* tables of chat.db stay on disk                                           *)
UncaughtException ==
    /\ running' = FALSE
    /\ sockets' = {}
    /\ closed' = closed \cup sockets
    /\ connectedUsers' = [t \in {} |-> connectedUsers[t]]
    /\ pending' = EmptyBag
    /\ emitted' = Nothing
    /\ UNCHANGED <<response, now, online_users, messages, received,
                   lastJoin, nJoins, nLeaves>>

(* socket.on('sendMessage'): `user.studentId` (line 284) throws a TypeError *)
(* when the payload has no user; otherwise the INSERT is issued with the    *)
(* timestamp taken in the handler                                           *)
SendMessage(s, messageData) ==
    /\ running
    /\ s \in sockets
    /\ nSends < MaxSends
    /\ nSends' = nSends + 1
    /\ UNCHANGED nGets
    /\ \/ /\ ~messageData.hasUser
          /\ UncaughtException
       \/ /\ messageData.hasUser
          /\ \E timestamp \in now..MaxTime :
                /\ now' = timestamp
                /\ pending' = Issue(pending, InsertMessage(s, messageData, timestamp))
          /\ emitted' = Nothing
          /\ UNCHANGED <<response, running, sockets, closed, connectedUsers,
                         online_users, messages, received, lastJoin, nJoins, nLeaves>>

(* mutant: updateUserList() is called outside of `if (user)` *)
DisconnectAlwaysRefreshes(s) ==
    /\ running
    /\ s \in sockets
    /\ sockets' = sockets \ {s}
    /\ closed' = closed \cup {s}
    /\ \/ /\ s \in DOMAIN connectedUsers
          /\ pending' = updateUserList(Issue(pending, DeleteOnlineUser(s)), s,
                                       "disconnect")
          /\ connectedUsers' = [t \in DOMAIN connectedUsers \ {s} |-> connectedUsers[t]]
          /\ emitted' = SocketBroadcastEmit(Nothing, s,
                                            UserLeftEvent(connectedUsers[s]))
          /\ nLeaves' = nLeaves + 1
       \/ /\ s \notin DOMAIN connectedUsers
          /\ pending' = updateUserList(pending, s, "disconnect")
          /\ emitted' = Nothing
          /\ UNCHANGED <<connectedUsers, nLeaves>>
    /\ UNCHANGED <<nGets, response, running, now, online_users, messages, received,
                   lastJoin, nJoins, nSends>>

(* socket.on('disconnect'): only a socket that is in connectedUsers leaves  *)
Disconnect(s) ==
    /\ running
    /\ s \in sockets
    /\ sockets' = sockets \ {s}
    /\ closed' = closed \cup {s}
    /\ \/ /\ s \in DOMAIN connectedUsers
          /\ pending' = updateUserList(Issue(pending, DeleteOnlineUser(s)), s,
                                       "disconnect")
          /\ connectedUsers' = [t \in DOMAIN connectedUsers \ {s} |-> connectedUsers[t]]
          /\ emitted' = SocketBroadcastEmit(Nothing, s,
                                            UserLeftEvent(connectedUsers[s]))
          /\ nLeaves' = nLeaves + 1
       \/ /\ s \notin DOMAIN connectedUsers
          /\ emitted' = Nothing
          /\ UNCHANGED <<connectedUsers, pending, nLeaves>>
    /\ UNCHANGED <<nGets, response, running, now, online_users, messages, received,
                   lastJoin, nJoins, nSends>>

(* socket.on('getMessages'): `dateRange.days` (line 314) throws a TypeError *)
(* when the event has no payload; otherwise the SELECT is issued            *)
GetMessages(s, dateRange) ==
    /\ running
    /\ s \in sockets
    /\ nGets < MaxGets
    /\ nGets' = nGets + 1
    /\ UNCHANGED nSends
    /\ \/ /\ ~dateRange.hasRange
          /\ UncaughtException
       \/ /\ dateRange.hasRange
          /\ pending' = Issue(pending, GetMessagesQuery(s, dateRange))
          /\ emitted' = Nothing
          /\ UNCHANGED <<response, running, now, sockets, closed, connectedUsers,
                         online_users, messages, received, lastJoin, nJoins, nLeaves>>

(* app.get('/api/messages') *)
HttpGetMessages(query) ==
    /\ running
    /\ nGets < MaxGets
    /\ nGets' = nGets + 1
    /\ pending' = Issue(pending, HttpMessagesQuery(query))
    /\ emitted' = Nothing
    /\ UNCHANGED <<response, running, now, sockets, closed, connectedUsers,
                   online_users, messages, received, lastJoin, nJoins, nLeaves,
                   nSends>>

(* process.on('SIGINT'): db.close() runs once the pending statements have   *)
(* completed, its callback calls process.exit(0); no 'disconnect' handler   *)
(* runs for the sockets that were connected                                 *)
Shutdown ==
    /\ running
    /\ pending = EmptyBag
    /\ running' = FALSE
    /\ sockets' = {}
    /\ closed' = closed \cup sockets
    /\ connectedUsers' = [t \in {} |-> connectedUsers[t]]
    /\ emitted' = Nothing
    /\ UNCHANGED <<nGets, response, now, online_users, messages, pending, received,
                   lastJoin, nJoins, nLeaves, nSends>>


(* online_users after a start: chat.db is a file and initDatabase() runs    *)
(* CREATE TABLE IF NOT EXISTS, the rows of the last run are still there     *)
InitDatabaseOnlineUsers == online_users

(* node server.js, again: a new process with a new connectedUsers map over  *)
(* the chat.db the last one left                                            *)
Restart ==
    /\ ~running
    /\ running' = TRUE
    /\ connectedUsers' = [t \in {} |-> connectedUsers[t]]
    /\ online_users' = InitDatabaseOnlineUsers
    /\ emitted' = Nothing
    /\ UNCHANGED <<nGets, response, now, sockets, closed, messages, pending,
                   received, lastJoin, nJoins, nLeaves, nSends>>

----------------------------------------------------------------------------
(* Completion of a pending statement, with its callback *)

(* datetime('now') reads the clock when the statement runs *)
ClockReadings(op) ==
    IF op.where = "days" THEN (now..MaxTime) \cup {now} ELSE {now}

(* mutant: io.emit in place of socket.emit, everybody is sent the history *)
HistoryLoadedToAll(op, rows) == IoEmit(Nothing, MessageHistoryEvent(rows))

(* callback of getMessages' db.all, err = null *)
HistoryLoaded(op, rows) == SocketEmit(Nothing, op.sock, MessageHistoryEvent(rows))

(* callback of getMessages' db.all, err # null *)
HistoryFailed(op) == SocketEmit(Nothing, op.sock, ErrorEvent("history failed"))

(* the SELECT of getMessages and its callback *)
MessageHistoryDone(op) ==
    /\ Runnable(op)
    /\ op.kind = "selectMessages"
    /\ op.from = "getMessages"
    /\ \/ \E clock \in ClockReadings(op) :
             /\ now' = clock
             /\ emitted' = HistoryLoaded(op, SelectMessages(op, clock))
       \/ /\ now' = now
          /\ emitted' = HistoryFailed(op)
    /\ pending' = Completed(pending, op)
    /\ UNCHANGED <<nGets, response, running, sockets, closed, connectedUsers,
                   online_users, messages, received, lastJoin, nJoins, nLeaves,
                   nSends>>

(* the SELECT of GET /api/messages and its callback *)
HttpMessagesDone(op) ==
    /\ Runnable(op)
    /\ op.kind = "selectMessages"
    /\ op.from = "http"
    /\ \/ \E clock \in ClockReadings(op) :
             /\ now' = clock
             /\ response' = MessagesResponse(SelectMessages(op, clock))
       \/ /\ now' = now
          /\ response' = MessagesFailedResponse
    /\ emitted' = Nothing
    /\ pending' = Completed(pending, op)
    /\ UNCHANGED <<nGets, running, sockets, closed, connectedUsers,
                   online_users, messages, received, lastJoin, nJoins, nLeaves,
                   nSends>>

(* INSERT OR REPLACE INTO online_users (no callback) *)
InsertOnlineDone(op) ==
    /\ Runnable(op)
    /\ op.kind = "insertOnline"
    /\ online_users' = ReplaceOnlineUser(online_users, op)
    /\ pending' = Completed(pending, op)
    /\ emitted' = Nothing
    /\ UNCHANGED <<nGets, response, running, now, sockets, closed, connectedUsers, messages,
                   received, lastJoin, nJoins, nLeaves, nSends>>

(* DELETE FROM online_users WHERE socket_id = ? (no callback) *)
DeleteOnlineDone(op) ==
    /\ Runnable(op)
    /\ op.kind = "deleteOnline"
    /\ online_users' = DeleteBySocket(online_users, op.sock)
    /\ pending' = Completed(pending, op)
    /\ emitted' = Nothing
    /\ UNCHANGED <<nGets, response, running, now, sockets, closed, connectedUsers, messages,
                   received, lastJoin, nJoins, nLeaves, nSends>>

(* callback of updateUserList's db.all, err = null *)
UserListLoaded(users) == IoEmit(Nothing, UserListUpdateEvent(users))

(* SELECT * FROM online_users ORDER BY joined_at ASC, and its callback: on  *)
(* an error the callback only logs                                         *)
SelectOnlineDone(op) ==
    /\ Runnable(op)
    /\ op.kind = "selectOnline"
    /\ \/ emitted' = UserListLoaded(OrderByJoinedAt(online_users))
       \/ emitted' = Nothing
    /\ pending' = Completed(pending, op)
    /\ UNCHANGED <<nGets, response, running, now, sockets, closed, connectedUsers, online_users,
                   messages, received, lastJoin, nJoins, nLeaves, nSends>>

(* mutant: socket.broadcast.emit in place of io.emit, the sender is left out *)
MessageSavedToOthers(lastID, op) ==
    SocketBroadcastEmit(Nothing, op.sock, NewMessageEvent(lastID, op))

(* callback of sendMessage's db.run, err = null: this.lastID is the new id *)
MessageSaved(lastID, op) == IoEmit(Nothing, NewMessageEvent(lastID, op))

(* mutant: io.emit in place of socket.emit, everybody is sent the error *)
MessageFailedToAll(op) == IoEmit(Nothing, ErrorEvent("send failed"))

(* callback of sendMessage's db.run, err # null *)
MessageFailed(op) == SocketEmit(Nothing, op.sock, ErrorEvent("send failed"))

(* INSERT INTO messages and its callback; the INSERT fails on a NOT NULL    *)
(* constraint and may fail on the store itself                              *)
InsertMessageDone(op) ==
    /\ Runnable(op)
    /\ op.kind = "insertMessage"
    /\ \/ /\ MessageConstraintsHold(op)
          /\ messages' = Append(messages, MessageRow(Len(messages) + 1, op))
          /\ emitted' = MessageSaved(Len(messages) + 1, op)
       \/ /\ messages' = messages
          /\ emitted' = MessageFailed(op)
    /\ received' = Deliver(received, emitted')
    /\ pending' = Completed(pending, op)
    /\ UNCHANGED <<nGets, response, running, now, sockets, closed, connectedUsers, online_users,
                   lastJoin, nJoins, nLeaves, nSends>>

Next ==
    \/ \E s \in Conns : Connect(s)
    \/ \E s \in Conns : \E userInfo \in UserInfos : Join(s, userInfo)
    \/ \E s \in Conns : \E messageData \in MessageDatas : SendMessage(s, messageData)
    \/ \E s \in Conns : Disconnect(s)
    \/ \E op \in BagToSet(pending) : InsertOnlineDone(op)
    \/ \E op \in BagToSet(pending) : DeleteOnlineDone(op)
    \/ \E op \in BagToSet(pending) : SelectOnlineDone(op)
    \/ \E op \in BagToSet(pending) : InsertMessageDone(op)
    \/ \E s \in Conns : \E dateRange \in DateRanges : GetMessages(s, dateRange)
    \/ \E query \in HttpQueries : HttpGetMessages(query)
    \/ \E op \in BagToSet(pending) : MessageHistoryDone(op)
    \/ \E op \in BagToSet(pending) : HttpMessagesDone(op)
    \/ Shutdown
    \/ Restart

(* the whole hub *)
Spec == Init /\ [][Next]_vars

(* presence alone: connections that join and leave, nobody sends *)
NextPresence ==
    \/ \E s \in Conns : Connect(s)
    \/ \E s \in Conns : \E userInfo \in UserInfos : Join(s, userInfo)
    \/ \E s \in Conns : Disconnect(s)
    \/ \E op \in BagToSet(pending) : InsertOnlineDone(op)
    \/ \E op \in BagToSet(pending) : DeleteOnlineDone(op)
    \/ \E op \in BagToSet(pending) : SelectOnlineDone(op)

SpecPresence == Init /\ [][NextPresence]_vars

(* messages alone: sendMessage and its callback never read connectedUsers  *)
(* or online_users, and io.emit reaches every connected socket, joined or  *)
(* not                                                                     *)
NextChat ==
    \/ \E s \in Conns : Connect(s)
    \/ \E s \in Conns : \E messageData \in MessageDatas : SendMessage(s, messageData)
    \/ \E s \in Conns : Disconnect(s)
    \/ \E op \in BagToSet(pending) : InsertMessageDone(op)

SpecChat == Init /\ [][NextChat]_vars

(* presence and messages together: joins, sends and leaves interleaved *)
NextHub ==
    \/ NextPresence
    \/ NextChat

SpecHub == Init /\ [][NextHub]_vars

(* messages and their history: sendMessage and getMessages *)
NextHistory ==
    \/ \E s \in Conns : Connect(s)
    \/ \E s \in Conns : \E messageData \in MessageDatas : SendMessage(s, messageData)
    \/ \E s \in Conns : \E dateRange \in DateRanges : GetMessages(s, dateRange)
    \/ \E s \in Conns : Disconnect(s)
    \/ \E op \in BagToSet(pending) : InsertMessageDone(op)
    \/ \E op \in BagToSet(pending) : MessageHistoryDone(op)

SpecHistory == Init /\ [][NextHistory]_vars

(* History queries as functions of the store, the filter and the clock:     *)
(* the store is any that sendMessage can have filled, one connection and    *)
(* HTTP clients query it.  A query changes nothing that another query       *)
(* reads but the clock, so one query is followed from each store and clock. *)
QueryStamps == 0..(HistoryDays * TicksPerDay - 1)

(* the row with id `id` that a sendMessage handled at instant timestamp     *)
(* leaves in messages                                                       *)
StoredMessage(id, timestamp) ==
    MessageRow(id, InsertMessage(1,
        CHOOSE md \in MessageDatas : md.hasUser /\ md.content # Undefined,
        timestamp))

(* the stores of at most MaxRows rows: every timestamp in every order, for  *)
(* the INSERTs of sendMessage complete in any order                         *)
SmallStores ==
    UNION {{[i \in 1..n |-> StoredMessage(i, stamp[i])] :
               stamp \in [1..n -> QueryStamps]} : n \in 0..MaxRows}

(* stores around the LIMIT: of one timestamp, and of timestamps that cycle  *)
(* downwards through QueryStamps                                            *)
LargeStores ==
    {[i \in 1..n |-> StoredMessage(i, 0)] : n \in (Limit - 1)..(Limit + MaxRows)}
    \cup {[i \in 1..n |-> StoredMessage(i, (n - i) % (HistoryDays * TicksPerDay))] :
              n \in (Limit - 1)..(Limit + MaxRows)}

InitQuery ==
    /\ running = TRUE
    /\ messages \in SmallStores \cup LargeStores
    /\ now \in {t \in QueryStamps :
                   \A i \in 1..Len(messages) : messages[i].timestamp <= t}
    /\ sockets = {1}
    /\ closed = {}
    /\ connectedUsers = [s \in {} |-> [studentId |-> "", name |-> "", socketId |-> 0]]
    /\ online_users = <<>>
    /\ pending = EmptyBag
    /\ emitted = Nothing
    /\ received = [s \in Conns |-> <<>>]
    /\ lastJoin = [u \in StudentIds |-> 0]
    /\ nJoins = 0
    /\ nLeaves = 0
    /\ nSends = 0
    /\ nGets = MaxGets - 1
    /\ response = NoResponse

NextQuery ==
    \/ \E s \in Conns : \E dateRange \in DateRanges : GetMessages(s, dateRange)
    \/ \E query \in HttpQueries : HttpGetMessages(query)
    \/ \E op \in BagToSet(pending) : MessageHistoryDone(op)
    \/ \E op \in BagToSet(pending) : HttpMessagesDone(op)

SpecQuery == InitQuery /\ [][NextQuery]_vars

(* readers alone: connections that come, ask for the history of a store    *)
(* that earlier sendMessages have filled, and go; nobody sends              *)
InitReaders ==
    /\ running = TRUE
    /\ now = 0
    /\ messages \in {store \in SmallStores :
                         \A i \in 1..Len(store) : store[i].timestamp = 0}
    /\ sockets = {}
    /\ closed = {}
    /\ connectedUsers = [s \in {} |-> [studentId |-> "", name |-> "", socketId |-> 0]]
    /\ online_users = <<>>
    /\ pending = EmptyBag
    /\ emitted = Nothing
    /\ received = [s \in Conns |-> <<>>]
    /\ lastJoin = [u \in StudentIds |-> 0]
    /\ nJoins = 0
    /\ nLeaves = 0
    /\ nSends = 0
    /\ nGets = 0
    /\ response = NoResponse

NextReaders ==
    \/ \E s \in Conns : Connect(s)
    \/ \E s \in Conns : \E dateRange \in DateRanges : GetMessages(s, dateRange)
    \/ \E s \in Conns : Disconnect(s)
    \/ \E op \in BagToSet(pending) : MessageHistoryDone(op)

SpecReaders == InitReaders /\ [][NextReaders]_vars

(* presence across runs of the server: it is stopped and started again *)
NextRestart ==
    \/ NextPresence
    \/ Shutdown
    \/ Restart

SpecRestart == Init /\ [][NextRestart]_vars

----------------------------------------------------------------------------
(* Claims *)

IsSuffix(a, b) ==
    /\ Len(a) <= Len(b)
    /\ a = SubSeq(b, Len(b) - Len(a) + 1, Len(b))

(* the event the claims expect for row `row` of messages *)
ExpectedNewMessage(row) ==
    [type |-> "newMessage", studentId |-> row.student_id, name |-> row.user_name,
     list |-> <<>>, id |-> row.id, content |-> row.content,
     timestamp |-> row.timestamp, message |-> ""]

ExpectedError ==
    [type |-> "error", studentId |-> "", name |-> "", list |-> <<>>, id |-> 0,
     content |-> "", timestamp |-> 0, message |-> "send failed"]

(* C1: broadcast consistency.  Two connections that are both connected have *)
(* been sent the same newMessage events in the same order from the moment   *)
(* the later of them connected: the newMessage log of one is a suffix of    *)
(* the log of the other.                                                    *)
C1_BroadcastConsistency ==
    \A s \in sockets : \A t \in sockets :
        IsSuffix(received[s], received[t]) \/ IsSuffix(received[t], received[s])

(* C1 witness: two connections have both been sent the same two messages *)
C1_Witness ==
    \E s \in sockets : \E t \in sockets :
        /\ s # t
        /\ Len(received[s]) = 2
        /\ received[s] = received[t]
        /\ received[s][1].id = 1
        /\ received[s][2].id = 2

(* C2: a step that appends a row to messages completes one pending INSERT   *)
(* and sends exactly one newMessage to every connected socket (the sender   *)
(* included when it is still connected) and to nobody else; the event       *)
(* carries the id the store gave the row (the next AUTOINCREMENT value) and *)
(* the content, timestamp, student id and name of the statement sendMessage *)
(* issued.  And sendMessage issues the statement with the payload's content *)
(* and author and the time of the handler.                                  *)
C2_OneNewMessageToAll ==
    [][ /\ Len(messages') = Len(messages) + 1 =>
            LET row == messages'[Len(messages')] IN
            /\ row.id = Len(messages) + 1
            /\ SubSeq(messages', 1, Len(messages)) = messages
            /\ \E op \in BagToSet(pending) :
                  /\ op.kind = "insertMessage"
                  /\ pending' = Completed(pending, op)
                  /\ row.content = op.content
                  /\ row.timestamp = op.timestamp
                  /\ row.student_id = op.student_id
                  /\ row.user_name = op.user_name
            /\ \A t \in Conns :
                  /\ emitted'[t] = IF t \in sockets
                                   THEN <<ExpectedNewMessage(row)>> ELSE <<>>
                  /\ received'[t] = received[t] \o emitted'[t]
        /\ \A s \in Conns : \A md \in MessageDatas :
              (SendMessage(s, md) /\ running') =>
                  \E ts \in now..now' :
                      pending' = pending (+) SetToBag({
                          [kind |-> "insertMessage", sock |-> s, from |-> "",
                           student_id |-> md.studentId, user_name |-> md.name,
                           content |-> md.content, timestamp |-> ts,
                           where |-> "", days |-> <<>>, startDate |-> <<>>,
                           endDate |-> <<>>]})
      ]_vars

(* C2 witness: the second message has just been stored and sent to two      *)
(* connections, one of them its sender                                      *)
C2_Witness ==
    /\ Len(messages) = 2
    /\ \E s \in sockets : \E t \in sockets :
          /\ s # t
          /\ emitted[s] = <<ExpectedNewMessage(messages[2])>>
          /\ emitted[t] = emitted[s]

(* every newMessage a client has been sent is a row of messages *)
NoPhantomMessage ==
    \A t \in Conns : \A i \in 1..Len(received[t]) :
        \E j \in 1..Len(messages) :
            received[t][i] = ExpectedNewMessage(messages[j])

(* C3: when an INSERT INTO messages completes without a new row (the append *)
(* failed), the only event sent is one error to the socket that sent the    *)
(* message (nothing when it has disconnected), no newMessage reaches        *)
(* anybody; and no client is ever sent a newMessage that is not a row of    *)
(* messages.                                                                *)
C3_FailureSuppressesBroadcast ==
    /\ []NoPhantomMessage
    /\ [][ \A op \in BagToSet(pending) :
              ( /\ op.kind = "insertMessage"
                /\ pending' = Completed(pending, op)
                /\ messages' = messages
                /\ running' ) =>
                  /\ \A t \in Conns :
                        emitted'[t] = IF t = op.sock /\ t \in sockets
                                      THEN <<ExpectedError>> ELSE <<>>
                  /\ received' = received
         ]_vars

(* C3 witness: an append has failed: the sender alone has just been sent    *)
(* the error, another connection is there and was sent nothing, and the     *)
(* store has no row                                                         *)
C3_Witness ==
    /\ messages = <<>>
    /\ \E s \in sockets : \E t \in sockets :
          /\ s # t
          /\ emitted[s] = <<ExpectedError>>
          /\ emitted[t] = <<>>

(* a sendMessage payload without the user or without the content *)
Malformed(md) == ~md.hasUser \/ md.content = Undefined

(* C4: handling a sendMessage whose payload lacks the user or the content   *)
(* leaves the process running, every connection connected, the store and   *)
(* what the clients were sent unchanged, sends nothing to the other         *)
(* connections, and the sender gets the error: at once, or from the         *)
(* callback of an INSERT that can only fail; and when such an INSERT        *)
(* completes, nothing is appended and the error goes to the sender alone.   *)
C4_MalformedSendReported ==
    [][ /\ \A s \in Conns : \A md \in MessageDatas :
              (SendMessage(s, md) /\ Malformed(md)) =>
                  /\ running'
                  /\ sockets' = sockets
                  /\ messages' = messages
                  /\ received' = received
                  /\ \A t \in Conns \ {s} : emitted'[t] = <<>>
                  /\ \/ emitted'[s] = <<ExpectedError>>
                     \/ /\ emitted'[s] = <<>>
                        /\ \E op \in BagToSet(pending') :
                              /\ op.kind = "insertMessage"
                              /\ op.sock = s
                              /\ CopiesIn(op, pending') = CopiesIn(op, pending) + 1
                              /\ op.student_id = Undefined \/ op.content = Undefined
        /\ \A op \in BagToSet(pending) :
              ( /\ op.kind = "insertMessage"
                /\ op.student_id = Undefined \/ op.content = Undefined
                /\ pending' = Completed(pending, op) /\ running' ) =>
                  /\ messages' = messages
                  /\ \A t \in Conns :
                        emitted'[t] = IF t = op.sock /\ t \in sockets
                                      THEN <<ExpectedError>> ELSE <<>>
      ]_vars

ExpectedWelcome ==
    [type |-> "systemMessage", studentId |-> "", name |-> "", list |-> <<>>,
     id |-> 0, content |-> "", timestamp |-> 0, message |-> "welcome"]

ExpectedUserEvent(type, studentId, name) ==
    [type |-> type, studentId |-> studentId, name |-> name, list |-> <<>>,
     id |-> 0, content |-> "", timestamp |-> 0, message |-> ""]

(* C5: the join handler of connection s sends userJoined{user} to every     *)
(* other connected socket and not to s, sends the welcome systemMessage to  *)
(* s and to nobody else, and issues the SELECT of updateUserList; when that *)
(* SELECT completes without error, one and the same userListUpdate goes to  *)
(* every socket connected then (s included while it is connected) and to    *)
(* nobody else.                                                             *)
C5_JoinRecipients ==
    [][ /\ \A s \in Conns : \A u \in UserInfos :
              Join(s, u) =>
                  /\ \A t \in Conns :
                        emitted'[t] =
                            IF t = s THEN <<ExpectedWelcome>>
                            ELSE IF t \in sockets
                                 THEN <<ExpectedUserEvent("userJoined", u.studentId,
                                                          u.name)>>
                                 ELSE <<>>
                  /\ CopiesIn(SelectOnlineUsers(s, "join"), pending')
                        = CopiesIn(SelectOnlineUsers(s, "join"), pending) + 1
        /\ \A op \in BagToSet(pending) :
              ( /\ op.kind = "selectOnline"
                /\ op.from = "join"
                /\ pending' = Completed(pending, op) ) =>
                  \/ emitted' = Nothing
                  \/ /\ \A t \in Conns \ sockets : emitted'[t] = <<>>
                     /\ \A t \in sockets :
                           /\ Len(emitted'[t]) = 1
                           /\ emitted'[t][1].type = "userListUpdate"
                           /\ \A t2 \in sockets : emitted'[t2] = emitted'[t]
      ]_vars

(* C5 witness: a join has just been handled with two other sockets present: *)
(* the joiner holds the welcome, the others the userJoined                  *)
C5_Witness ==
    \E s \in sockets : \E t \in sockets :
        /\ s # t
        /\ emitted[s] = <<ExpectedWelcome>>
        /\ Len(emitted[t]) = 1
        /\ emitted[t][1].type = "userJoined"
        /\ s \in DOMAIN connectedUsers
        /\ emitted[t][1].studentId = connectedUsers[s].studentId

(* C6: the disconnect handler of a joined connection s sends userLeft{user} *)
(* to every remaining socket and issues the DELETE and the SELECT; and the  *)
(* userListUpdate that SELECT produces is the refreshed list: the rows it   *)
(* reads hold no row of s.                                                  *)
C6_LeaveRefreshesList ==
    [][ /\ \A s \in Conns :
              (Disconnect(s) /\ s \in DOMAIN connectedUsers) =>
                  /\ \A t \in Conns :
                        emitted'[t] =
                            IF t \in sockets \ {s}
                            THEN <<ExpectedUserEvent("userLeft",
                                                     connectedUsers[s].studentId,
                                                     connectedUsers[s].name)>>
                            ELSE <<>>
                  /\ s \notin DOMAIN connectedUsers'
        /\ \A op \in BagToSet(pending) :
              ( /\ op.kind = "selectOnline"
                /\ op.from = "disconnect"
                /\ pending' = Completed(pending, op)
                /\ emitted' # Nothing ) =>
                  \A i \in 1..Len(online_users) : online_users[i].socket_id # op.sock
      ]_vars

(* C7: the disconnect of a socket that never joined (it is not in           *)
(* connectedUsers) sends no event, issues no statement (so no               *)
(* userListUpdate follows from it) and leaves online_users and              *)
(* connectedUsers as they were.                                             *)
C7_DisconnectBeforeJoin ==
    [][ \A s \in Conns :
          (s \in sockets /\ s \notin sockets' /\ running'
             /\ s \notin DOMAIN connectedUsers) =>
              /\ emitted' = Nothing
              /\ pending' = pending
              /\ online_users' = online_users
              /\ connectedUsers' = connectedUsers
      ]_vars

(* C7 witness: a socket has disconnected without ever joining (a socket is  *)
(* closed, no joined connection has left) while another connection is       *)
(* joined and listed                                                        *)
C7_Witness ==
    /\ closed # {}
    /\ nLeaves = 0
    /\ emitted = Nothing
    /\ pending = EmptyBag
    /\ \E t \in sockets :
          /\ t \in DOMAIN connectedUsers
          /\ \E i \in 1..Len(online_users) : online_users[i].socket_id = t

(* C8: online_users never holds two rows of one student id; and once the    *)
(* statements of the joins have completed, with no connection gone, the row *)
(* of a student id is the row of the latest join handled for it.            *)
C8_LastJoinWins ==
    /\ \A i \in 1..Len(online_users) : \A j \in 1..Len(online_users) :
          online_users[i].student_id = online_users[j].student_id => i = j
    /\ (pending = EmptyBag /\ closed = {}) =>
          \A u \in StudentIds :
              lastJoin[u] # 0 =>
                  \E i \in 1..Len(online_users) :
                      /\ online_users[i].student_id = u
                      /\ online_users[i].socket_id = lastJoin[u]

(* C9: once every statement has completed, the list has as many entries as  *)
(* joins were handled minus leaves (disconnects of joined connections).     *)
C9_ListLengthIsJoinsMinusLeaves ==
    pending = EmptyBag => Len(online_users) = nJoins - nLeaves

(* C10: once every statement has completed, every row of online_users       *)
(* carries the socket id of a connection that has joined and is still       *)
(* connected.                                                               *)
C10_EntriesAreLive ==
    pending = EmptyBag =>
        \A i \in 1..Len(online_users) :
            /\ online_users[i].socket_id \in sockets
            /\ online_users[i].socket_id \in DOMAIN connectedUsers

(* C11: a getMessages request sends events to the requesting connection    *)
(* only -- one messageHistory or one error when its SELECT completes,       *)
(* nothing from the handler itself -- and neither the handler nor the       *)
(* callback changes the messages table or the online_users table.           *)
C11_GetMessagesFrame ==
    [][/\ nGets' # nGets =>
             /\ emitted' = Nothing
             /\ messages' = messages
             /\ online_users' = online_users
       /\ \A op \in BagToSet(pending) :
             (/\ op.kind = "selectMessages"
              /\ op.from = "getMessages"
              /\ running'
              /\ pending' = Completed(pending, op)) =>
                 /\ messages' = messages
                 /\ online_users' = online_users
                 /\ \A t \in Conns \ {op.sock} : emitted'[t] = <<>>
                 /\ op.sock \in sockets =>
                        /\ Len(emitted'[op.sock]) = 1
                        /\ emitted'[op.sock][1].type \in {"messageHistory", "error"}
                 /\ op.sock \notin sockets => emitted'[op.sock] = <<>>]_vars

(* a connection has just been sent a history that is not empty, while       *)
(* another connection is connected and has been sent nothing                *)
C11_Witness ==
    \E s \in sockets : \E t \in sockets \ {s} :
        /\ emitted[s] # <<>>
        /\ emitted[s][1].type = "messageHistory"
        /\ emitted[s][1].list # <<>>
        /\ emitted[t] = <<>>

(* C12: the statements of one connection take effect in the order its      *)
(* events arrived: 'disconnect' is the last event of a connection, so when  *)
(* its DELETE takes effect no INSERT of an earlier join of that connection  *)
(* is still to come.                                                        *)
C12_EffectsInArrivalOrder ==
    [][\A op \in BagToSet(pending) :
          (op.kind = "deleteOnline" /\ pending' = Completed(pending, op)) =>
              ~\E earlier \in BagToSet(pending) :
                   earlier.kind = "insertOnline" /\ earlier.sock = op.sock]_vars

(* C13: the presence list is empty whenever the server has just started.    *)
C13_PresenceEmptyAfterRestart ==
    [][(~running /\ running') => online_users' = <<>>]_vars

(* the history lists that the last step sent: to sockets and over HTTP *)
Histories ==
    {emitted[t][1].list : t \in {u \in Conns : /\ emitted[u] # <<>>
                                              /\ emitted[u][1].type = "messageHistory"}}
    \cup {response.messages}

(* by timestamp, and by id among equal timestamps *)
Precedes(m1, m2) ==
    \/ m1.timestamp < m2.timestamp
    \/ m1.timestamp = m2.timestamp /\ m1.id < m2.id

C15_AtMostLimit ==
    \A list \in Histories : Len(list) <= 1000

(* the store holds more than 1000 messages and a connection has been sent   *)
(* a history of 1000                                                        *)
C15_Witness ==
    /\ Len(messages) > 1000
    /\ \E t \in Conns :
          /\ emitted[t] # <<>>
          /\ emitted[t][1].type = "messageHistory"
          /\ Len(emitted[t][1].list) = 1000

(* C16: a query for the last N days, N >= 1, that succeeds returns, when no *)
(* more than 1000 messages qualify, exactly the stored messages whose       *)
(* timestamp is at or after the instant N days before the query runs.       *)
C16_LastNDaysByInstant ==
    [][\A op \in BagToSet(pending) :
          (/\ op.kind = "selectMessages"
           /\ op.where = "days"
           /\ op.days # <<>>
           /\ op.days[1] >= 1
           /\ pending' = Completed(pending, op)
           /\ IF op.from = "http"
              THEN response'.status = 200
              ELSE /\ emitted'[op.sock] # <<>>
                   /\ emitted'[op.sock][1].type = "messageHistory") =>
              LET returned == IF op.from = "http"
                              THEN response'.messages
                              ELSE emitted'[op.sock][1].list
                  since == now' - op.days[1] * TicksPerDay
                  expected == {i \in 1..Len(messages) :
                                  messages[i].timestamp >= since}
              IN  Cardinality(expected) <= 1000 =>
                      {returned[i].id : i \in 1..Len(returned)}
                          = {messages[i].id : i \in expected}]_vars

(* C17: online_users never holds two rows of one socket id, also when a     *)
(* connection has joined more than once and under different student ids.    *)
C17_OneEntryPerConnection ==
    \A i \in 1..Len(online_users) : \A j \in 1..Len(online_users) :
        online_users[i].socket_id = online_users[j].socket_id => i = j

(* the row that s joined with has been replaced by the row of a later join  *)
(* of the same student id on another connection                             *)
Superseded(s) ==
    /\ s \in DOMAIN connectedUsers
    /\ \A i \in 1..Len(online_users) : online_users[i].socket_id # s
    /\ \E i \in 1..Len(online_users) :
          online_users[i].student_id = connectedUsers[s].studentId

(* C18: when no statement is pending and a connection whose entry has been  *)
(* superseded disconnects, the disconnect handler sends no event, so none   *)
(* that says the user has left.                                             *)
C18_SupersededLeaveIsSilent ==
    [][\A s \in Conns :
          (/\ pending = EmptyBag
           /\ Superseded(s)
           /\ s \in sockets
           /\ s \notin sockets') => emitted' = Nothing]_vars

(* C19: when no statement is pending, the student id of every connection    *)
(* that has joined and has not disconnected is in online_users.             *)
C19_JoinedUsersArePresent ==
    pending = EmptyBag =>
        \A s \in DOMAIN connectedUsers :
            \E i \in 1..Len(online_users) :
                online_users[i].student_id = connectedUsers[s].studentId

(* C20: the hub issues the INSERT of a message only for a connection that   *)
(* has joined, and with the student id and the name that the connection     *)
(* joined with.                                                             *)
C20_AuthorIsJoinedIdentity ==
    [][\A op \in BagToSet(pending') :
          (op.kind = "insertMessage" /\ CopiesIn(op, pending') > CopiesIn(op, pending)) =>
              /\ op.sock \in DOMAIN connectedUsers
              /\ op.student_id = connectedUsers[op.sock].studentId
              /\ op.user_name = connectedUsers[op.sock].name]_vars

====
